---- MODULE Spec2Model ----
(***************************************************************************)
(* Model of the face-identity flow of features.py (the encoder             *)
(* get_face_encoding_from_photo and the verifier recognize_face) and of    *)
(* the connection context manager get_db_connection of database.py.        *)
(*                                                                         *)
(* Numbers.  An embedding is a vector of Dim coordinates.  A coordinate is *)
(* an integer k in 0..Grid that stands for the real number k / Grid, so    *)
(* that Grid stands for 1.0.  The squared Euclidean distance of two        *)
(* vectors is computed exactly on the integers; the comparison with the    *)
(* tolerance 0.5 is done on the squares, which is equivalent because both  *)
(* sides are non-negative.                                                 *)
(*                                                                         *)
(* Text.  A diagnostic is a sequence of strings, the pieces an f-string    *)
(* concatenates: <<"Error during face recognition: ", "ValueError">>.      *)
(***************************************************************************)
EXTENDS Integers, Sequences, FiniteSets, TLC

VARIABLES
    FACE_RECOGNITION_AVAILABLE, \* features.py: module flag set by the import
    request,                    \* the call the UI layer is about to make
    result,                     \* what that call produced
    db,                         \* database.py: the rows committed to the file
    conn,                       \* database.py: the connection of the current use
    uses                        \* database.py: finished uses of get_db_connection

faceVars == <<FACE_RECOGNITION_AVAILABLE, request, result>>
dbVars == <<db, conn, uses>>
vars == <<FACE_RECOGNITION_AVAILABLE, request, result, db, conn, uses>>

----------------------------------------------------------------------------
(* Bounds of the model. *)

Dim == 2        \* coordinates of an embedding (the library's is 128)
Grid == 2       \* a coordinate is k / Grid, k in 0..Grid
MaxFaces == 2   \* faces the detector finds in one photo, at most
MaxRows == 2    \* rows a body may write
MaxUses == 2    \* uses of get_db_connection in one run

TOLERANCE_TENTHS == 5   \* tolerance=0.5, in tenths
FLOAT64_SIZE == 8       \* bytes of one element of np.frombuffer's default dtype

----------------------------------------------------------------------------
(* Values. *)

Coords == 0..Grid
Embeddings == [1..Dim -> Coords]

\* The k-th further face of a photo whose first face is e: e moved by k on
\* every coordinate (wrapping), hence different from e for 0 < k <= Grid.
Shifted(e, k) == [i \in 1..Dim |-> (e[i] + k) % (Grid + 1)]

\* All sequences over S of length 0..n.
SeqsUpTo(S, n) == UNION {[1..k -> S] : k \in 0..n}

\* A BLOB read from students.face_encoding: None, or bytes holding whole
\* float64 values followed by `extra` bytes that do not make up one.
NoBlob == [kind |-> "none", doubles |-> <<>>, extra |-> 0]
ExtraBytes == {0, 4}
Blobs ==
    {NoBlob} \cup
    {[kind |-> "bytes", doubles |-> d, extra |-> x] :
        d \in SeqsUpTo(Coords, Dim + 1), x \in ExtraBytes}

BytesLen(blob) == FLOAT64_SIZE * Len(blob.doubles) + blob.extra

\* A photo as the UI layer hands it over: None, b"", bytes that are no image,
\* an image the detector chokes on, or an image with its faces in the order
\* in which the library reports them.
Photo(kind, faces) == [kind |-> kind, faces |-> faces]
FacesOf(e, n) == [k \in 1..n |-> Shifted(e, k - 1)]
Photos ==
    {Photo(k, <<>>) : k \in {"none", "empty", "malformed", "unsupported", "image"}}
    \cup {Photo("image", FacesOf(e, n)) : e \in Embeddings, n \in 1..MaxFaces}

----------------------------------------------------------------------------
(* What a call does: it returns a value or ends in an exception, and makes *)
(* calls on the way.                                                       *)

NoRet == [value |-> FALSE, message |-> <<>>]
Returned(value, message, calls) ==
    [raised |-> "none", ret |-> [value |-> value, message |-> message], calls |-> calls]
Thrown(exc, calls) == [raised |-> exc, ret |-> NoRet, calls |-> calls]

\* Python truth value of a bytes-or-None argument: `not x`.
NotBlob(blob) == blob.kind = "none" \/ BytesLen(blob) = 0
NotPhoto(photo) == photo.kind \in {"none", "empty"}

\* The exception classes the library calls raise; all derive from Exception.
LibraryErrors == {"ValueError", "TypeError", "UnidentifiedImageError", "RuntimeError"}
\* Classes that derive from BaseException only.
BaseOnly == {"KeyboardInterrupt", "SystemExit"}

----------------------------------------------------------------------------
(* The library calls features.py makes, by what they do to these values.   *)

Call(raised, value) == [raised |-> raised, value |-> value]

\* np.frombuffer(buffer) with the default dtype float: the buffer cut into
\* float64 values; a size that is no multiple of the element size is a
\* ValueError, None is a TypeError.
np_frombuffer(blob) ==
    IF blob.kind = "none" THEN Call("TypeError", <<>>)
    ELSE IF BytesLen(blob) % FLOAT64_SIZE # 0 THEN Call("ValueError", <<>>)
    ELSE Call("none", blob.doubles)

\* face_recognition.load_image_file(BytesIO(photo_bytes)): PIL cannot
\* identify bytes that are no image.
load_image_file(photo) ==
    IF photo.kind = "malformed" THEN Call("UnidentifiedImageError", <<>>)
    ELSE Call("none", photo)

\* face_recognition.face_encodings(image): one embedding per detected face,
\* in the detector's order.
face_encodings(image) ==
    IF image.kind = "unsupported" THEN Call("RuntimeError", <<>>)
    ELSE Call("none", image.faces)

\* numpy broadcasting of a (1, k) array against a (d,) array.
Broadcastable(k, d) == k = d \/ k = 1 \/ d = 1
Max2(a, b) == IF a >= b THEN a ELSE b
At(v, i) == IF Len(v) = 1 THEN v[1] ELSE v[i]

RECURSIVE SumSq(_, _, _)
SumSq(a, b, n) ==
    IF n = 0 THEN 0
    ELSE (At(a, n) - At(b, n)) * (At(a, n) - At(b, n)) + SumSq(a, b, n - 1)

\* Squared Euclidean distance, in units of (1 / Grid)^2.
DistSq(a, b) == SumSq(a, b, Max2(Len(a), Len(b)))

\* distance <= t / 10, on the squares: 100 * d2 / Grid^2 <= t^2.
WithinTenths(d2, t) == 100 * d2 <= t * t * Grid * Grid

NoEncoding == [present |-> FALSE, vec |-> <<>>]
Encoding(e) == [present |-> TRUE, vec |-> e]

\* face_recognition.compare_faces(known, check, tolerance):
\* list(np.linalg.norm(known - check, axis=1) <= tolerance).  Subtracting
\* None is a TypeError, shapes that do not broadcast are a ValueError.
compare_faces(known_face_encodings, face_encoding_to_check, tolerance) ==
    IF ~face_encoding_to_check.present THEN Call("TypeError", <<>>)
    ELSE IF \E i \in 1..Len(known_face_encodings) :
              ~Broadcastable(Len(known_face_encodings[i]),
                             Len(face_encoding_to_check.vec))
         THEN Call("ValueError", <<>>)
    ELSE Call("none",
              [i \in 1..Len(known_face_encodings) |->
                  WithinTenths(
                      DistSq(known_face_encodings[i], face_encoding_to_check.vec),
                      tolerance)])

----------------------------------------------------------------------------
(* get_face_encoding_from_photo                                            *)

\* A handler that catches ValueError alone.
EncoderCatches_ValueErrorOnly(exc) == exc = "ValueError"

\* `except Exception` of the encoder.
EncoderCatches(exc) == exc \in LibraryErrors

\* Picks the last detection.
SelectEncoding_Last(encodings, calls) ==
    IF Len(encodings) > 0
    THEN Returned(Encoding(encodings[Len(encodings)]),
                  <<"Face encoding generated successfully.">>, calls)
    ELSE Returned(NoEncoding, <<"No face found in the uploaded photo.">>, calls)

\* `if len(face_encodings) > 0: return face_encodings[0], ... else: None`.
SelectEncoding(encodings, calls) ==
    IF Len(encodings) > 0
    THEN Returned(Encoding(encodings[1]),
                  <<"Face encoding generated successfully.">>, calls)
    ELSE Returned(NoEncoding, <<"No face found in the uploaded photo.">>, calls)

\* The body of the encoder's try block.
EncoderBody(photo) ==
    LET image == load_image_file(photo) IN
    IF image.raised # "none"
    THEN Thrown(image.raised, <<"load_image_file">>)
    ELSE LET found == face_encodings(image.value) IN
         IF found.raised # "none"
         THEN Thrown(found.raised, <<"load_image_file", "face_encodings">>)
         ELSE SelectEncoding(found.value, <<"load_image_file", "face_encodings">>)

get_face_encoding_from_photo(available, photo_bytes) ==
    IF ~available \/ NotPhoto(photo_bytes)
    THEN Returned(NoEncoding,
                  <<"Face recognition is not available or no photo provided.">>, <<>>)
    ELSE LET body == EncoderBody(photo_bytes) IN
         IF body.raised # "none" /\ EncoderCatches(body.raised)
         THEN Returned(NoEncoding,
                       <<"Error processing photo for face recognition: ", body.raised>>,
                       body.calls)
         ELSE body

----------------------------------------------------------------------------
(* recognize_face                                                          *)

\* Looks at the photo before the stored embedding.
FirstFailedPrecondition_PhotoFirst(available, known, photo) ==
    IF ~available THEN "unavailable"
    ELSE IF NotPhoto(photo) THEN "no_photo"
    ELSE IF NotBlob(known) THEN "no_known"
    ELSE "ok"

\* Does not look at the stored embedding.
FirstFailedPrecondition_NoKnownCheck(available, known, photo) ==
    IF ~available THEN "unavailable"
    ELSE IF NotPhoto(photo) THEN "no_photo"
    ELSE "ok"

\* Does not look at the photo.
FirstFailedPrecondition_NoPhotoCheck(available, known, photo) ==
    IF ~available THEN "unavailable"
    ELSE IF NotBlob(known) THEN "no_known"
    ELSE "ok"

\* The three `if not ...: return False, ...` at the head of recognize_face.
FirstFailedPrecondition(available, known, photo) ==
    IF ~available THEN "unavailable"
    ELSE IF NotBlob(known) THEN "no_known"
    ELSE IF NotPhoto(photo) THEN "no_photo"
    ELSE "ok"

PreconditionMessage(failed) ==
    CASE failed = "unavailable" -> <<"Face recognition is not available.">>
      [] failed = "no_known" -> <<"No registered face data found for this student.">>
      [] failed = "no_photo" -> <<"No current photo provided for attendance.">>

\* A handler that catches TypeError alone.
VerifierCatches_TypeErrorOnly(exc) == exc = "TypeError"

\* `except Exception` of recognize_face.
VerifierCatches(exc) == exc \in LibraryErrors

\* Goes on to the comparison whatever the encoder returned.
EncodingIsNone_Never(encoding) == FALSE

\* `if current_face_encodings is None`.
EncodingIsNone(encoding) == ~encoding.present

\* Calls the library with a tolerance of 0.4.
CompareStep_Stricter(known_face_encoding, current_face_encodings) ==
    compare_faces(<<known_face_encoding>>, current_face_encodings, TOLERANCE_TENTHS - 1)

\* compare_faces([known_face_encoding], current_face_encodings, tolerance=0.5).
CompareStep(known_face_encoding, current_face_encodings) ==
    compare_faces(<<known_face_encoding>>, current_face_encodings, TOLERANCE_TENTHS)

\* Answers "recognized" whatever the comparison said.
MatchResult_Open(matches, calls) ==
    Returned(TRUE, <<"Face recognized successfully.">>, calls)

\* `if matches[0]: return True, ... else: return False, ...`.
MatchResult(matches, calls) ==
    IF matches[1]
    THEN Returned(TRUE, <<"Face recognized successfully.">>, calls)
    ELSE Returned(FALSE, <<"Face not recognized. Please try again.">>, calls)

\* The body of the verifier's try block.
VerifierBody(available, known, photo) ==
    LET known_face_encoding == np_frombuffer(known) IN
    IF known_face_encoding.raised # "none"
    THEN Thrown(known_face_encoding.raised, <<"np.frombuffer">>)
    ELSE
    LET current == get_face_encoding_from_photo(available, photo)
        calls2 == <<"np.frombuffer", "get_face_encoding_from_photo">> \o current.calls
    IN
    IF current.raised # "none" THEN Thrown(current.raised, calls2)
    ELSE IF EncodingIsNone(current.ret.value)
    THEN Returned(FALSE,
                  <<"Could not detect face in current photo: ">> \o current.ret.message,
                  calls2)
    ELSE
    LET matches == CompareStep(known_face_encoding.value, current.ret.value)
        calls3 == Append(calls2, "compare_faces")
    IN
    IF matches.raised # "none" THEN Thrown(matches.raised, calls3)
    ELSE MatchResult(matches.value, calls3)

recognize_face(available, known_face_encoding_bytes, current_photo_bytes) ==
    LET failed == FirstFailedPrecondition(available, known_face_encoding_bytes,
                                          current_photo_bytes)
    IN
    IF failed # "ok" THEN Returned(FALSE, PreconditionMessage(failed), <<>>)
    ELSE LET body == VerifierBody(available, known_face_encoding_bytes,
                                  current_photo_bytes)
         IN
         IF body.raised # "none" /\ VerifierCatches(body.raised)
         THEN Returned(FALSE, <<"Error during face recognition: ", body.raised>>,
                       body.calls)
         ELSE body

----------------------------------------------------------------------------
(* The face flow as a state machine: the import sets the flag, the UI      *)
(* layer makes one call, the call runs to its end.                         *)

NoResult == [raised |-> "none", ret |-> NoRet, calls |-> <<>>]
NoRequest == [op |-> "none", known |-> NoBlob, photo |-> Photo("none", <<>>)]

EncodeRequests == {[op |-> "encode", known |-> NoBlob, photo |-> p] : p \in Photos}
RecognizeRequests ==
    {[op |-> "recognize", known |-> k, photo |-> p] : k \in Blobs, p \in Photos}

NoConn ==
    [state |-> "none", before |-> {}, pending |-> {}, events |-> <<>>,
     body |-> "none", committed |-> FALSE, rolledBack |-> FALSE,
     propagated |-> "none"]

DbIdle ==
    /\ db = {}
    /\ conn = NoConn
    /\ uses = 0

Init ==
    /\ FACE_RECOGNITION_AVAILABLE \in BOOLEAN
    /\ request \in EncodeRequests \cup RecognizeRequests
    /\ result = NoResult
    /\ DbIdle

\* registration screen: get_face_encoding_from_photo(photo)
Encode ==
    /\ request.op = "encode"
    /\ result' = get_face_encoding_from_photo(FACE_RECOGNITION_AVAILABLE, request.photo)
    /\ request' = [request EXCEPT !.op = "encoded"]
    /\ UNCHANGED <<FACE_RECOGNITION_AVAILABLE, dbVars>>

\* attendance screen: recognize_face(stored, photo)
Recognize ==
    /\ request.op = "recognize"
    /\ result' = recognize_face(FACE_RECOGNITION_AVAILABLE, request.known, request.photo)
    /\ request' = [request EXCEPT !.op = "recognized"]
    /\ UNCHANGED <<FACE_RECOGNITION_AVAILABLE, dbVars>>

Next == Encode \/ Recognize

Spec == Init /\ [][Next]_vars

----------------------------------------------------------------------------
(* Vocabulary of the properties of the face flow.                          *)

Recognized == request.op = "recognized"
Encoded == request.op = "encoded"

Invoked(name) == \E i \in 1..Len(result.calls) : result.calls[i] = name

ReturnedValue(value, message) ==
    /\ result.raised = "none"
    /\ result.ret.value = value
    /\ result.ret.message = message

ReturnedFalse == result.raised = "none" /\ result.ret.value = FALSE
ReturnedTrue == result.raised = "none" /\ result.ret.value = TRUE

\* The photo is an image in which the detector finds a face.
HasFace(photo) == photo.kind = "image" /\ Len(photo.faces) >= 1

\* The stored bytes are the bytes of one embedding.
IsEmbeddingBytes(blob) ==
    blob.kind = "bytes" /\ blob.extra = 0 /\ Len(blob.doubles) = Dim

RECURSIVE EuclidSqUpTo(_, _, _)
EuclidSqUpTo(a, b, n) ==
    IF n = 0 THEN 0 ELSE (a[n] - b[n]) * (a[n] - b[n]) + EuclidSqUpTo(a, b, n - 1)

\* Squared distance of two embeddings, in units of (1 / Grid)^2.
EuclidSq(a, b) == EuclidSqUpTo(a, b, Dim)

\* distance <= 1/2, distance = 1/2.
AtMostHalf(d2) == 4 * d2 <= Grid * Grid
ExactlyHalf(d2) == 4 * d2 = Grid * Grid

\* What the library's comparison says of the stored bytes and the first face.
ComparisonReportsMatch(known, photo) ==
    LET stored == np_frombuffer(known) IN
    /\ stored.raised = "none"
    /\ LET cmp == compare_faces(<<stored.value>>, Encoding(photo.faces[1]),
                                TOLERANCE_TENTHS)
       IN cmp.raised = "none" /\ cmp.value[1]

----------------------------------------------------------------------------
(* Properties of recognize_face.                                           *)

\* C1: recognize_face answers matched = True only when the capability is
\* available, the stored bytes and the photo bytes are non-empty, the encoder
\* found a face in the photo and the comparison reported a match; in every
\* other case it returns matched = False.
C1_FailClosed ==
    Recognized =>
        IF /\ FACE_RECOGNITION_AVAILABLE
           /\ ~NotBlob(request.known)
           /\ ~NotPhoto(request.photo)
           /\ HasFace(request.photo)
           /\ ComparisonReportsMatch(request.known, request.photo)
        THEN ReturnedTrue
        ELSE ReturnedFalse

C1_Witness ==
    /\ Recognized
    /\ FACE_RECOGNITION_AVAILABLE
    /\ request.known.kind = "none"
    /\ HasFace(request.photo)
    /\ ReturnedFalse

\* C2: the preconditions are checked in the order capability, stored
\* embedding, current photo; the diagnostic is that of the first check that
\* fails, and the answer is False.
C2_PreconditionOrder ==
    Recognized =>
        /\ ~FACE_RECOGNITION_AVAILABLE =>
              ReturnedValue(FALSE, <<"Face recognition is not available.">>)
        /\ FACE_RECOGNITION_AVAILABLE /\ NotBlob(request.known) =>
              ReturnedValue(FALSE, <<"No registered face data found for this student.">>)
        /\ FACE_RECOGNITION_AVAILABLE /\ ~NotBlob(request.known)
              /\ NotPhoto(request.photo) =>
              ReturnedValue(FALSE, <<"No current photo provided for attendance.">>)

C2_Witness ==
    /\ Recognized
    /\ FACE_RECOGNITION_AVAILABLE
    /\ NotBlob(request.known)
    /\ NotPhoto(request.photo)
    /\ ReturnedValue(FALSE, <<"No registered face data found for this student.">>)

\* C3: with an absent or empty stored embedding, whatever the photo,
\* recognize_face returns False and the encoder is not invoked.
C3_NoStoredNoEncoder ==
    Recognized /\ NotBlob(request.known) =>
        /\ ReturnedFalse
        /\ ~Invoked("get_face_encoding_from_photo")
        /\ ~Invoked("load_image_file")
        /\ ~Invoked("face_encodings")

C3_Witness ==
    /\ Recognized
    /\ FACE_RECOGNITION_AVAILABLE
    /\ request.known.kind = "bytes"
    /\ BytesLen(request.known) = 0
    /\ HasFace(request.photo)
    /\ ReturnedFalse
    /\ result.calls = <<>>

\* C4: with an absent or empty current photo, whatever the stored embedding,
\* recognize_face returns False and np.frombuffer is not reached.
C4_NoPhotoNoDeserialize ==
    Recognized /\ NotPhoto(request.photo) =>
        /\ ReturnedFalse
        /\ ~Invoked("np.frombuffer")

C4_Witness ==
    /\ Recognized
    /\ FACE_RECOGNITION_AVAILABLE
    /\ IsEmbeddingBytes(request.known)
    /\ NotPhoto(request.photo)
    /\ ReturnedFalse
    /\ result.calls = <<>>

C6_ToleranceInclusive ==
    /\ Recognized
    /\ FACE_RECOGNITION_AVAILABLE
    /\ IsEmbeddingBytes(request.known)
    /\ HasFace(request.photo)
    => IF AtMostHalf(EuclidSq(request.known.doubles, request.photo.faces[1]))
       THEN ReturnedValue(TRUE, <<"Face recognized successfully.">>)
       ELSE ReturnedValue(FALSE, <<"Face not recognized. Please try again.">>)

C6_Witness ==
    /\ Recognized
    /\ FACE_RECOGNITION_AVAILABLE
    /\ IsEmbeddingBytes(request.known)
    /\ HasFace(request.photo)
    /\ ExactlyHalf(EuclidSq(request.known.doubles, request.photo.faces[1]))
    /\ ReturnedTrue

\* C7: when the encoder is invoked and returns None for the current photo,
\* recognize_face returns False with "Could not detect face in current
\* photo: " followed by the encoder's diagnostic, and does not compare.
C7_EncoderAbsent ==
    /\ Recognized
    /\ Invoked("get_face_encoding_from_photo")
    /\ ~HasFace(request.photo)
    => /\ ReturnedValue(FALSE,
            <<"Could not detect face in current photo: ">> \o
            get_face_encoding_from_photo(FACE_RECOGNITION_AVAILABLE,
                                         request.photo).ret.message)
       /\ ~Invoked("compare_faces")

C7_Witness ==
    /\ Recognized
    /\ Invoked("get_face_encoding_from_photo")
    /\ request.photo = Photo("image", <<>>)
    /\ ReturnedValue(FALSE, <<"Could not detect face in current photo: ",
                              "No face found in the uploaded photo.">>)

----------------------------------------------------------------------------
(* Properties of get_face_encoding_from_photo.                             *)

\* C8: with the capability available and a decodable photo, the encoder
\* returns None with "No face found" exactly when no face is detected, and
\* for N >= 1 faces returns one embedding, the first in detection order.
C8_FirstFace ==
    Encoded /\ FACE_RECOGNITION_AVAILABLE /\ request.photo.kind = "image" =>
        /\ result.raised = "none"
        /\ Len(request.photo.faces) = 0 <=>
              ReturnedValue(NoEncoding, <<"No face found in the uploaded photo.">>)
        /\ Len(request.photo.faces) >= 1 =>
              /\ result.ret.value = Encoding(request.photo.faces[1])
              /\ result.ret.value.vec \in Embeddings

C8_Witness ==
    /\ Encoded
    /\ FACE_RECOGNITION_AVAILABLE
    /\ request.photo.kind = "image"
    /\ Len(request.photo.faces) >= 2
    /\ request.photo.faces[1] # request.photo.faces[Len(request.photo.faces)]
    /\ result.ret.value = Encoding(request.photo.faces[1])

\* C9: the encoder never raises; without the capability, without a photo or
\* on bytes whose decoding or embedding throws it returns None with a
\* diagnostic, and without the capability the diagnostic says so.
C9_EncoderNeverRaises ==
    Encoded =>
        /\ result.raised = "none"
        /\ ~FACE_RECOGNITION_AVAILABLE \/ ~HasFace(request.photo) =>
              /\ result.ret.value = NoEncoding
              /\ result.ret.message # <<>>
        /\ ~FACE_RECOGNITION_AVAILABLE =>
              result.ret.message =
                  <<"Face recognition is not available or no photo provided.">>
        /\ FACE_RECOGNITION_AVAILABLE /\ request.photo.kind = "malformed" =>
              result.ret.message = <<"Error processing photo for face recognition: ",
                                     "UnidentifiedImageError">>

C9_Witness ==
    /\ Encoded
    /\ FACE_RECOGNITION_AVAILABLE
    /\ request.photo.kind = "malformed"
    /\ ReturnedValue(NoEncoding, <<"Error processing photo for face recognition: ",
                                   "UnidentifiedImageError">>)

----------------------------------------------------------------------------
(* get_db_connection: `with get_db_connection() as cursor: body`.          *)

Rows == 1..MaxRows

\* What a body raises: an sqlite3 error (an Exception), or an exception
\* that derives from BaseException alone.
SqliteErrors == {"sqlite3.IntegrityError", "sqlite3.OperationalError"}
BodyErrors == {"sqlite3.IntegrityError"} \cup BaseOnly

\* `except Exception as e` of get_db_connection.
ContextCatches(exc) == exc \in SqliteErrors \cup LibraryErrors

Exit(events, committed, rolledBack, propagated) ==
    [events |-> events, committed |-> committed, rolledBack |-> rolledBack,
     propagated |-> propagated]

\* Closes after a commit only: `conn.close()` at the end of the try block.
AfterYield_CloseOnSuccessOnly(bodyRaised, commitRaises) ==
    IF bodyRaised = "none"
    THEN IF ~commitRaises
         THEN Exit(<<"commit", "close">>, TRUE, FALSE, "none")
         ELSE Exit(<<"commit", "rollback">>, FALSE, TRUE, "sqlite3.OperationalError")
    ELSE IF ContextCatches(bodyRaised)
         THEN Exit(<<"rollback">>, FALSE, TRUE, bodyRaised)
         ELSE Exit(<<>>, FALSE, FALSE, bodyRaised)

\* The generator from its `yield cursor` on: the body's exception, if any,
\* is thrown in at the yield; commit; except Exception: rollback, raise e;
\* finally: close.
AfterYield(bodyRaised, commitRaises) ==
    IF bodyRaised = "none"
    THEN IF ~commitRaises
         THEN Exit(<<"commit", "close">>, TRUE, FALSE, "none")
         ELSE Exit(<<"commit", "rollback", "close">>, FALSE, TRUE,
                   "sqlite3.OperationalError")
    ELSE IF ContextCatches(bodyRaised)
         THEN Exit(<<"rollback", "close">>, FALSE, TRUE, bodyRaised)
         ELSE Exit(<<"close">>, FALSE, FALSE, bodyRaised)

\* conn = sqlite3.connect(...); cursor = conn.cursor(); yield cursor
Enter ==
    /\ conn.state \in {"none", "closed"}
    /\ uses < MaxUses
    /\ conn' = [NoConn EXCEPT !.state = "open", !.before = db,
                              !.events = <<"connect", "cursor">>]
    /\ UNCHANGED <<db, uses, faceVars>>

\* the body: cursor.execute("INSERT ...", row)
Execute(row) ==
    /\ conn.state = "open"
    /\ row \notin conn.pending
    /\ conn' = [conn EXCEPT !.pending = @ \cup {row}]
    /\ UNCHANGED <<db, uses, faceVars>>

\* The generator resumed at the end of the body, or with the body's exception.
Leave(bodyRaised, commitRaises) ==
    /\ conn.state = "open"
    /\ LET exit == AfterYield(bodyRaised, commitRaises) IN
       /\ conn' = [conn EXCEPT !.state = "closed",
                               !.body = bodyRaised,
                               !.events = @ \o exit.events,
                               !.committed = exit.committed,
                               !.rolledBack = exit.rolledBack,
                               !.propagated = exit.propagated]
       /\ db' = IF exit.committed THEN db \cup conn.pending ELSE db
    /\ uses' = uses + 1
    /\ UNCHANGED faceVars

\* the body runs to its end
BodyCompletes == \E commitRaises \in BOOLEAN : Leave("none", commitRaises)

\* the body raises
BodyRaises == \E exc \in BodyErrors : Leave(exc, FALSE)

InitDb ==
    /\ FACE_RECOGNITION_AVAILABLE = TRUE
    /\ request = NoRequest
    /\ result = NoResult
    /\ DbIdle

NextDb ==
    \/ Enter
    \/ \E row \in Rows : Execute(row)
    \/ BodyCompletes
    \/ BodyRaises

SpecDb == InitDb /\ [][NextDb]_vars

----------------------------------------------------------------------------
(* Properties of get_db_connection.                                        *)

Finished == conn.state = "closed"
Closed == conn.events # <<>> /\ conn.events[Len(conn.events)] = "close"
Calls(name) == Cardinality({i \in 1..Len(conn.events) : conn.events[i] = name})

\* The body completed: committed, then closed.
CommittedThenClosed ==
    /\ conn.body = "none"
    /\ conn.events = <<"connect", "cursor", "commit", "close">>
    /\ conn.committed /\ ~conn.rolledBack
    /\ conn.propagated = "none"
    /\ db = conn.before \cup conn.pending

\* The body raised: rolled back, closed, the same exception re-raised.
RolledBackThenClosed ==
    /\ conn.body # "none"
    /\ conn.events = <<"connect", "cursor", "rollback", "close">>
    /\ conn.rolledBack /\ ~conn.committed
    /\ conn.propagated = conn.body
    /\ db = conn.before

\* The commit raised: rollback follows the failed commit.
CommitFailedThenRolledBack ==
    /\ conn.body = "none"
    /\ conn.events = <<"connect", "cursor", "commit", "rollback", "close">>
    /\ conn.rolledBack /\ ~conn.committed
    /\ conn.propagated = "sqlite3.OperationalError"
    /\ db = conn.before

\* The body raised an exception that is no Exception: closed, nothing else.
ClosedOnly ==
    /\ conn.body \in BaseOnly
    /\ conn.events = <<"connect", "cursor", "close">>
    /\ ~conn.rolledBack /\ ~conn.committed
    /\ conn.propagated = conn.body
    /\ db = conn.before

\* C10, as stated: every use opens one connection and ends committed then
\* closed when the body completes, or rolled back, closed and re-raising the
\* same exception when the body raises (rollback following a commit that
\* raises); closed on every path, never both committed and rolled back.
C10_CommitOrRollback ==
    Finished =>
        /\ Calls("connect") = 1
        /\ Closed
        /\ ~(conn.committed /\ conn.rolledBack)
        /\ \/ CommittedThenClosed
           \/ RolledBackThenClosed
           \/ CommitFailedThenRolledBack

\* C10, amended: as above when the body raises an exception derived from
\* Exception; a body that raises any other BaseException has its connection
\* closed without commit and without rollback, and the exception propagates.
C10_CommitRollbackOrCloseOnly ==
    Finished =>
        /\ Calls("connect") = 1
        /\ Calls("close") = 1
        /\ Closed
        /\ ~(conn.committed /\ conn.rolledBack)
        /\ conn.body = "none" =>
              CommittedThenClosed \/ CommitFailedThenRolledBack
        /\ conn.body # "none" /\ conn.body \notin BaseOnly => RolledBackThenClosed
        /\ conn.body \in BaseOnly => ClosedOnly

C10_WitnessCloseOnly ==
    /\ Finished
    /\ conn.pending # {}
    /\ ClosedOnly

====
